---- MODULE Spec2Model ----
\* A model of the typestate password manager (src/src/password_manager.rs):
\* the builder, the Locked/Unlocked manager and the caller's bindings that hold
\* them.  A value that Rust moves out of a binding leaves the binding empty.
EXTENDS Naturals, Sequences, FiniteSets

VARIABLES
    builder,           \* Option<PasswordManagerBuilder<P>>: the builder chain's current value
    manager,           \* Option<PasswordManager<Locked>>: the caller's locked binding
    unlocked_manager,  \* Option<PasswordManager<Unlocked>>: the caller's unlocked binding
    ret,               \* the last call and what it returned to the caller
    chain,             \* history: the builder calls made so far, in order
    rejected,          \* history: rejected unlocks since the store was built or locked
    before,            \* history: the store as it was before the first of those rejections
    at_lock,           \* history: the entries at the latest lock(), until the store is next used
    inserted,          \* history: insert() has been called on the store
    ever_unlocked,     \* history: an unlock() of the store has succeeded
    pc,                \* main: the statement main is at ("caller" when another caller drives)
    remaining_attempts,\* main: let mut remaining_attempts
    input,             \* main: the String read_line filled last
    unlock_calls       \* history: unlock() calls main has made

vars == <<builder, manager, unlocked_manager, ret, chain, rejected, before,
          at_lock, inserted, ever_unlocked, pc, remaining_attempts, input,
          unlock_calls>>

\* What belongs to main alone; the calls of any other caller leave it as it is.
locals == <<pc, remaining_attempts, input, unlock_calls>>

\* ---------------------------------------------------------------- inputs
\* The strings the callers pass.  "Hunter2" is an account, a password and a
\* master password at once; "" is a master password and a candidate.
Accounts == {"a@example.com", "Hunter2"}
Passwords == {"Bees123", "Hunter2"}
Masters == {"", "Hunter2"}
Candidates == {"", "Hunter2", "wrong"}
\* A key no call ever passes.
Nobody == "nobody"

\* with_account calls per builder chain
MaxAccounts == 2
\* rejected unlocks in a row
MaxRejected == 2

\* ---------------------------------------------------------------- values
None == <<>>
Some(x) == <<x>>

\* HashMap::new()
HashMap_new == [k \in {} |-> ""]

\* HashMap::insert: adds the key or overwrites its value
HashMap_insert(map, k, v) ==
    [x \in (DOMAIN map) \cup {k} |-> IF x = k THEN v ELSE map[x]]

\* HashMap::remove
HashMap_remove(map, k) ==
    [x \in (DOMAIN map) \ {k} |-> map[x]]

\* HashMap::get
HashMap_get(map, k) ==
    IF k \in DOMAIN map THEN Some(map[k]) ELSE None

\* struct MissingPassword;  struct MasterPassword(String);
MissingPassword == <<>>
MasterPassword(s) == <<s>>

\* ---------------------------------------------------------------- PasswordManager
\* unlock as it would be if an empty candidate were refused before the comparison
unlock_rejects_empty(self, master_password) ==
    IF master_password # "" /\ master_password = self.master_password
    THEN [tag |-> "Ok",
          value |-> [master_password |-> self.master_password,
                     password_list |-> self.password_list,
                     state |-> "Unlocked"]]
    ELSE [tag |-> "Err", value |-> self]

\* unlock as it would be if the rejected store kept the candidate as its master password
unlock_err_keeps_candidate(self, master_password) ==
    IF master_password = self.master_password
    THEN [tag |-> "Ok",
          value |-> [master_password |-> self.master_password,
                     password_list |-> self.password_list,
                     state |-> "Unlocked"]]
    ELSE [tag |-> "Err", value |-> [self EXCEPT !.master_password = master_password]]

\* unlock as it would be if the rejected store came back with a fresh account list
unlock_err_rebuilt(self, master_password) ==
    IF master_password = self.master_password
    THEN [tag |-> "Ok",
          value |-> [master_password |-> self.master_password,
                     password_list |-> self.password_list,
                     state |-> "Unlocked"]]
    ELSE [tag |-> "Err", value |-> [self EXCEPT !.password_list = HashMap_new]]

\* unlock(self, master_password) -> Result<PasswordManager<Unlocked>, PasswordManager<Locked>>
unlock(self, master_password) ==
    IF master_password = self.master_password
    THEN [tag |-> "Ok",
          value |-> [master_password |-> self.master_password,
                     password_list |-> self.password_list,
                     state |-> "Unlocked"]]
    ELSE [tag |-> "Err", value |-> self]

\* lock as it would be if the account list were not carried over
lock_drops_entries(self) ==
    [master_password |-> self.master_password,
     password_list |-> HashMap_new,
     state |-> "Locked"]

\* lock(self) -> PasswordManager<Locked>
lock(self) ==
    [master_password |-> self.master_password,
     password_list |-> self.password_list,
     state |-> "Locked"]

\* get_passwords as it would be if it handed out the store's own map
get_passwords_shared(self) ==
    [map |-> self.password_list, shares |-> TRUE]

\* get_passwords(&self) -> HashMap<String, String>: a clone, which owns its storage
get_passwords(self) ==
    [map |-> self.password_list, shares |-> FALSE]

\* get_password(&self, account) -> Option<String>
get_password(self, account) ==
    HashMap_get(self.password_list, account)

\* insert as it would be if an account already present kept its password
insert_if_absent(self, account, password) ==
    IF account \in DOMAIN self.password_list
    THEN self
    ELSE [self EXCEPT !.password_list = HashMap_insert(self.password_list, account, password)]

\* insert as it would be if it also assigned the password to the master password
insert_sets_master(self, account, password) ==
    [self EXCEPT !.password_list = HashMap_insert(self.password_list, account, password),
                 !.master_password = password]

\* insert(&mut self, account, password)
insert(self, account, password) ==
    [self EXCEPT !.password_list = HashMap_insert(self.password_list, account, password)]

\* ---------------------------------------------------------------- PasswordManagerBuilder
\* PasswordManagerBuilder::new()
new ==
    [master_password |-> MissingPassword, password_list |-> HashMap_new]

\* with_account as it would be if it rebuilt the builder with a missing master password
with_account_resets_master(self, account, password) ==
    [master_password |-> MissingPassword,
     password_list |-> HashMap_insert(self.password_list, account, password)]

\* with_account as it would be if an account already present kept its password
with_account_first_wins(self, account, password) ==
    IF account \in DOMAIN self.password_list
    THEN self
    ELSE [self EXCEPT !.password_list = HashMap_insert(self.password_list, account, password)]

\* with_account(self, account, password) -> Self
with_account(self, account, password) ==
    LET new_password_list == HashMap_insert(self.password_list, account, password)
    IN  [self EXCEPT !.password_list = new_password_list]

\* with_master_password as it would be if it started the account list afresh
with_master_password_fresh_list(self, master_password) ==
    [master_password |-> MasterPassword(master_password),
     password_list |-> HashMap_new]

\* with_master_password as it would be if it stored an empty string in place of its argument
with_master_password_blank(self, master_password) ==
    [master_password |-> MasterPassword(""),
     password_list |-> self.password_list]

\* with_master_password(self, master_password) -> PasswordManagerBuilder<MasterPassword>
with_master_password(self, master_password) ==
    [master_password |-> MasterPassword(master_password),
     password_list |-> self.password_list]

\* build as it would be if the manager it returned were typed Unlocked
build_unlocked(self) ==
    [master_password |-> self.master_password[1],
     password_list |-> self.password_list,
     state |-> "Unlocked"]

\* build(self) -> PasswordManager<Locked>
build(self) ==
    [master_password |-> self.master_password[1],
     password_list |-> self.password_list,
     state |-> "Locked"]

\* ---------------------------------------------------------------- the calls
Ret(op, args, tag, out, map, shares) ==
    [op |-> op, args |-> args, tag |-> tag, out |-> out, map |-> map, shares |-> shares]

NoValue(op, args, tag) == Ret(op, args, tag, None, HashMap_new, FALSE)

AccountCalls == Cardinality({i \in 1..Len(chain) : chain[i][1] = "with_account"})

Init ==
    /\ builder = Some(new)
    /\ manager = None
    /\ unlocked_manager = None
    /\ ret = NoValue("new", <<>>, "Builder")
    /\ chain = <<>>
    /\ rejected = 0
    /\ before = None
    /\ at_lock = None
    /\ inserted = FALSE
    /\ ever_unlocked = FALSE
    /\ pc = "caller"
    /\ remaining_attempts = 0
    /\ input = <<>>
    /\ unlock_calls = 0

\* impl<P> PasswordManagerBuilder<P>: offered whatever the master-password slot holds
WithAccount(account, password) ==
    /\ builder # None
    /\ AccountCalls < MaxAccounts
    /\ builder' = Some(with_account(builder[1], account, password))
    /\ chain' = Append(chain, <<"with_account", account, password>>)
    /\ ret' = NoValue("with_account", <<account, password>>, "Builder")
    /\ UNCHANGED <<manager, unlocked_manager, rejected, before, at_lock, inserted,
                   ever_unlocked>>
    /\ UNCHANGED locals

\* WithMasterPassword as it would be if with_master_password were implemented
\* over a generic P, callable again on a builder whose master password is set
WithMasterPasswordAnyState(master_password) ==
    /\ builder # None
    /\ builder' = Some(with_master_password(builder[1], master_password))
    /\ chain' = Append(chain, <<"with_master_password", master_password>>)
    /\ ret' = NoValue("with_master_password", <<master_password>>, "Builder")
    /\ UNCHANGED <<manager, unlocked_manager, rejected, before, at_lock, inserted,
                   ever_unlocked>>
    /\ UNCHANGED locals

\* impl PasswordManagerBuilder<MissingPassword>
WithMasterPassword(master_password) ==
    /\ builder # None
    /\ builder[1].master_password = MissingPassword
    /\ builder' = Some(with_master_password(builder[1], master_password))
    /\ chain' = Append(chain, <<"with_master_password", master_password>>)
    /\ ret' = NoValue("with_master_password", <<master_password>>, "Builder")
    /\ UNCHANGED <<manager, unlocked_manager, rejected, before, at_lock, inserted,
                   ever_unlocked>>
    /\ UNCHANGED locals

\* Build as it would be if build() borrowed the builder and cloned out of it
BuildKeepsBuilder ==
    /\ builder # None
    /\ builder[1].master_password # MissingPassword
    /\ manager' = Some(build(builder[1]))
    /\ ret' = NoValue("build", <<>>, "PasswordManager")
    /\ UNCHANGED <<builder, unlocked_manager, chain, rejected, before, at_lock, inserted,
                   ever_unlocked>>
    /\ UNCHANGED locals

\* Build as it would be if build() were offered on every builder, with an empty
\* master password where none was set
BuildAnyState ==
    /\ builder # None
    /\ manager' = Some([master_password |-> IF builder[1].master_password = MissingPassword
                                            THEN ""
                                            ELSE builder[1].master_password[1],
                        password_list |-> builder[1].password_list,
                        state |-> "Locked"])
    /\ builder' = None
    /\ ret' = NoValue("build", <<>>, "PasswordManager")
    /\ UNCHANGED <<unlocked_manager, chain, rejected, before, at_lock, inserted,
                   ever_unlocked>>
    /\ UNCHANGED locals

\* impl PasswordManagerBuilder<MasterPassword>; build(self) moves the builder
Build ==
    /\ builder # None
    /\ builder[1].master_password # MissingPassword
    /\ manager' = Some(build(builder[1]))
    /\ builder' = None
    /\ ret' = NoValue("build", <<>>, "PasswordManager")
    /\ UNCHANGED <<unlocked_manager, chain, rejected, before, at_lock, inserted,
                   ever_unlocked>>
    /\ UNCHANGED locals

\* Unlock as it would be if the store refused every candidate once one was rejected
UnlockWithLockout(master_password) ==
    /\ manager # None
    /\ LET r == IF rejected > 0
                THEN [tag |-> "Err", value |-> manager[1]]
                ELSE unlock(manager[1], master_password)
       IN  /\ r.tag = "Err" => rejected < MaxRejected
           /\ IF r.tag = "Ok"
              THEN /\ unlocked_manager' = Some(r.value)
                   /\ manager' = None
                   /\ ever_unlocked' = TRUE
                   /\ UNCHANGED <<rejected, before>>
              ELSE /\ manager' = Some(r.value)
                   /\ rejected' = rejected + 1
                   /\ before' = IF rejected = 0 THEN manager ELSE before
                   /\ UNCHANGED <<unlocked_manager, ever_unlocked>>
           /\ ret' = NoValue("unlock", <<master_password>>, r.tag)
    /\ UNCHANGED <<builder, chain, at_lock, inserted>>
    /\ UNCHANGED locals

\* impl PasswordManager<Locked>; unlock(self, ..) moves the manager, and the caller
\* binds whichever value comes back
Unlock(master_password) ==
    /\ manager # None
    /\ LET r == unlock(manager[1], master_password)
       IN  /\ r.tag = "Err" => rejected < MaxRejected
           /\ IF r.tag = "Ok"
              THEN /\ unlocked_manager' = Some(r.value)
                   /\ manager' = None
                   /\ ever_unlocked' = TRUE
                   /\ UNCHANGED <<rejected, before>>
              ELSE /\ manager' = Some(r.value)
                   /\ rejected' = rejected + 1
                   /\ before' = IF rejected = 0 THEN manager ELSE before
                   /\ UNCHANGED <<unlocked_manager, ever_unlocked>>
           /\ ret' = NoValue("unlock", <<master_password>>, r.tag)
    /\ UNCHANGED <<builder, chain, at_lock, inserted>>
    /\ UNCHANGED locals

\* Lock as it would be if lock() borrowed the manager and cloned out of it
LockKeepsUnlocked ==
    /\ unlocked_manager # None
    /\ manager' = Some(lock(unlocked_manager[1]))
    /\ ret' = NoValue("lock", <<>>, "PasswordManager")
    /\ rejected' = 0
    /\ before' = None
    /\ at_lock' = Some(unlocked_manager[1].password_list)
    /\ UNCHANGED <<builder, unlocked_manager, chain, inserted, ever_unlocked>>
    /\ UNCHANGED locals

\* impl PasswordManager<Unlocked>; lock(self) moves the manager
Lock ==
    /\ unlocked_manager # None
    /\ manager' = Some(lock(unlocked_manager[1]))
    /\ unlocked_manager' = None
    /\ ret' = NoValue("lock", <<>>, "PasswordManager")
    /\ rejected' = 0
    /\ before' = None
    /\ at_lock' = Some(unlocked_manager[1].password_list)
    /\ UNCHANGED <<builder, chain, inserted, ever_unlocked>>
    /\ UNCHANGED locals

\* impl PasswordManager<Unlocked>
GetPasswords ==
    /\ unlocked_manager # None
    /\ LET r == get_passwords(unlocked_manager[1])
       IN  ret' = Ret("get_passwords", <<>>, "HashMap", None, r.map, r.shares)
    /\ at_lock' = None
    /\ UNCHANGED <<builder, manager, unlocked_manager, chain, rejected, before,
                   inserted, ever_unlocked>>
    /\ UNCHANGED locals

\* GetPassword as it would be if get_password were implemented for every state
GetPasswordAnyState(account) ==
    /\ manager # None \/ unlocked_manager # None
    /\ LET self == IF unlocked_manager # None THEN unlocked_manager[1] ELSE manager[1]
           r == get_password(self, account)
       IN  ret' = Ret("get_password", <<account>>, IF r = None THEN "None" ELSE "Some",
                      r, HashMap_new, FALSE)
    /\ at_lock' = None
    /\ UNCHANGED <<builder, manager, unlocked_manager, chain, rejected, before,
                   inserted, ever_unlocked>>
    /\ UNCHANGED locals

\* impl PasswordManager<Unlocked>
GetPassword(account) ==
    /\ unlocked_manager # None
    /\ LET r == get_password(unlocked_manager[1], account)
       IN  ret' = Ret("get_password", <<account>>, IF r = None THEN "None" ELSE "Some",
                      r, HashMap_new, FALSE)
    /\ at_lock' = None
    /\ UNCHANGED <<builder, manager, unlocked_manager, chain, rejected, before,
                   inserted, ever_unlocked>>
    /\ UNCHANGED locals

\* impl PasswordManager<Unlocked>
Insert(account, password) ==
    /\ unlocked_manager # None
    /\ unlocked_manager' = Some(insert(unlocked_manager[1], account, password))
    /\ ret' = NoValue("insert", <<account, password>>, "Unit")
    /\ at_lock' = None
    /\ inserted' = TRUE
    /\ UNCHANGED <<builder, manager, chain, rejected, before, ever_unlocked>>
    /\ UNCHANGED locals

\* The caller changes the map get_passwords() handed it: adds, overwrites or
\* removes a key.  A map that shared the store's storage would change the store.
CallerEdits(map) ==
    {HashMap_insert(map, a, p) : a \in Accounts, p \in Passwords}
        \cup {HashMap_remove(map, a) : a \in DOMAIN map}

MutateReturned ==
    /\ ret.op = "get_passwords"
    /\ \E edited \in CallerEdits(ret.map) \ {ret.map} :
        /\ ret' = [ret EXCEPT !.map = edited]
        /\ IF ret.shares
           THEN unlocked_manager' =
                    Some([unlocked_manager[1] EXCEPT !.password_list = edited])
           ELSE UNCHANGED unlocked_manager
    /\ UNCHANGED <<builder, manager, chain, rejected, before, at_lock, inserted,
                   ever_unlocked>>
    /\ UNCHANGED locals

Next ==
    \/ \E a \in Accounts, p \in Passwords : WithAccount(a, p)
    \/ \E m \in Masters : WithMasterPassword(m)
    \/ Build
    \/ \E c \in Candidates : Unlock(c)
    \/ Lock
    \/ GetPasswords
    \/ \E a \in Accounts \cup {Nobody} : GetPassword(a)
    \/ \E a \in Accounts, p \in Passwords : Insert(a, p)
    \/ MutateReturned

Spec == Init /\ [][Next]_vars

\* ---------------------------------------------------------------- main
\* let mut remaining_attempts = 3;
InitialAttempts == 3

\* The master password and the accounts main builds its manager with.
MainMaster == "Hunter2"
MainAccounts ==
    << <<"test@example.com", "Bees123">>,
       <<"person@social.com", "Wasps456">>,
       <<"me@news.biz", "Hornets789">> >>

\* What read_line can put into the String: a line of stdin as its pieces,
\* each a run of characters without white space or one white-space character;
\* the empty sequence is what end of input leaves.
Whitespace == {" ", "\t", "\r", "\n"}
PasswordLines ==
    { <<"Hunter2", "\n">>,
      <<" ", "Hunter2", "\r", "\n">>,
      <<"Hunter", " ", "2", "\n">>,
      <<"wrong", "\n">>,
      <<"\n">>,
      <<>> }
AccountLines ==
    { <<"test@example.com", "\n">>,
      <<"\t", "me@news.biz", " ", "\n">>,
      <<"nobody", "\n">>,
      <<>> }

\* str::trim: the string without its leading and trailing white space
RECURSIVE trim_start(_)
trim_start(s) ==
    IF s # <<>> /\ Head(s) \in Whitespace THEN trim_start(Tail(s)) ELSE s

RECURSIVE trim_end(_)
trim_end(s) ==
    IF s # <<>> /\ s[Len(s)] \in Whitespace
    THEN trim_end(SubSeq(s, 1, Len(s) - 1))
    ELSE s

trim(s) == trim_end(trim_start(s))

\* The string the pieces spell.
RECURSIVE Text(_)
Text(s) == IF s = <<>> THEN "" ELSE Head(s) \o Text(Tail(s))

\* PasswordManagerBuilder::new() has run; main is about to call with_master_password.
MainInit ==
    /\ builder = Some(new)
    /\ manager = None
    /\ unlocked_manager = None
    /\ ret = NoValue("new", <<>>, "Builder")
    /\ chain = <<>>
    /\ rejected = 0
    /\ before = None
    /\ at_lock = None
    /\ inserted = FALSE
    /\ ever_unlocked = FALSE
    /\ pc = "with_master_password"
    /\ remaining_attempts = 0
    /\ input = <<>>
    /\ unlock_calls = 0

\* .with_master_password("Hunter2")
MainWithMasterPassword ==
    /\ pc = "with_master_password"
    /\ builder' = Some(with_master_password(builder[1], MainMaster))
    /\ chain' = Append(chain, <<"with_master_password", MainMaster>>)
    /\ ret' = NoValue("with_master_password", <<MainMaster>>, "Builder")
    /\ pc' = "with_account"
    /\ UNCHANGED <<manager, unlocked_manager, rejected, before, at_lock, inserted,
                   ever_unlocked, remaining_attempts, input, unlock_calls>>

\* .with_account(..), three times over
MainWithAccount ==
    /\ pc = "with_account"
    /\ AccountCalls < Len(MainAccounts)
    /\ LET call == MainAccounts[AccountCalls + 1]
       IN  /\ builder' = Some(with_account(builder[1], call[1], call[2]))
           /\ chain' = Append(chain, <<"with_account", call[1], call[2]>>)
           /\ ret' = NoValue("with_account", call, "Builder")
    /\ UNCHANGED <<manager, unlocked_manager, rejected, before, at_lock, inserted,
                   ever_unlocked, pc, remaining_attempts, input, unlock_calls>>

\* .build();  let mut remaining_attempts = 3;
MainBuild ==
    /\ pc = "with_account"
    /\ AccountCalls = Len(MainAccounts)
    /\ manager' = Some(build(builder[1]))
    /\ builder' = None
    /\ ret' = NoValue("build", <<>>, "PasswordManager")
    /\ remaining_attempts' = InitialAttempts
    /\ pc' = "loop"
    /\ UNCHANGED <<unlocked_manager, chain, rejected, before, at_lock, inserted,
                   ever_unlocked, input, unlock_calls>>

\* MainExit as it would be if the loop gave up with one attempt left
MainExitOneEarly ==
    /\ pc = "loop"
    /\ remaining_attempts = 1
    /\ pc' = "exited"
    /\ UNCHANGED <<builder, manager, unlocked_manager, ret, chain, rejected, before,
                   at_lock, inserted, ever_unlocked, remaining_attempts, input,
                   unlock_calls>>

\* if remaining_attempts == 0 { .. std::process::exit(0); }
MainExit ==
    /\ pc = "loop"
    /\ remaining_attempts = 0
    /\ pc' = "exited"
    /\ UNCHANGED <<builder, manager, unlocked_manager, ret, chain, rejected, before,
                   at_lock, inserted, ever_unlocked, remaining_attempts, input,
                   unlock_calls>>

\* remaining_attempts -= 1;
MainDecrement ==
    /\ pc = "loop"
    /\ remaining_attempts # 0
    /\ remaining_attempts' = remaining_attempts - 1
    /\ pc' = "read_password"
    /\ UNCHANGED <<builder, manager, unlocked_manager, ret, chain, rejected, before,
                   at_lock, inserted, ever_unlocked, input, unlock_calls>>

\* let mut .._input = String::new();  stdin().read_line(&mut .._input) returns Ok
MainReadLine ==
    /\ pc \in {"read_password", "read_account"}
    /\ \E line \in IF pc = "read_password" THEN PasswordLines ELSE AccountLines :
        input' = line
    /\ pc' = IF pc = "read_password" THEN "unlock" ELSE "get_password"
    /\ UNCHANGED <<builder, manager, unlocked_manager, ret, chain, rejected, before,
                   at_lock, inserted, ever_unlocked, remaining_attempts, unlock_calls>>

\* read_line returns Err and .expect(..) panics
MainReadFails ==
    /\ pc \in {"read_password", "read_account"}
    /\ pc' = "panicked"
    /\ UNCHANGED <<builder, manager, unlocked_manager, ret, chain, rejected, before,
                   at_lock, inserted, ever_unlocked, remaining_attempts, input,
                   unlock_calls>>

\* match manager.unlock(password_input.trim()) { Ok(unlocked) => break unlocked,
\*                                               Err(still_locked) => manager = still_locked }
MainUnlock ==
    /\ pc = "unlock"
    /\ LET candidate == Text(trim(input))
           r == unlock(manager[1], candidate)
       IN  /\ IF r.tag = "Ok"
              THEN /\ unlocked_manager' = Some(r.value)
                   /\ manager' = None
                   /\ ever_unlocked' = TRUE
                   /\ pc' = "read_account"
                   /\ UNCHANGED <<rejected, before>>
              ELSE /\ manager' = Some(r.value)
                   /\ rejected' = rejected + 1
                   /\ before' = IF rejected = 0 THEN manager ELSE before
                   /\ pc' = "loop"
                   /\ UNCHANGED <<unlocked_manager, ever_unlocked>>
           /\ ret' = NoValue("unlock", <<candidate>>, r.tag)
    /\ unlock_calls' = unlock_calls + 1
    /\ UNCHANGED <<builder, chain, at_lock, inserted, remaining_attempts, input>>

\* let account_input = account_input.trim();
\* let social_password = unlocked_manager.get_password(account_input);
MainGetPassword ==
    /\ pc = "get_password"
    /\ LET account == Text(trim(input))
           r == get_password(unlocked_manager[1], account)
       IN  ret' = Ret("get_password", <<account>>, IF r = None THEN "None" ELSE "Some",
                      r, HashMap_new, FALSE)
    /\ pc' = "lock"
    /\ UNCHANGED <<builder, manager, unlocked_manager, chain, rejected, before, at_lock,
                   inserted, ever_unlocked, remaining_attempts, input, unlock_calls>>

\* let _ = unlocked_manager.lock();  the Locked manager is dropped at once
MainLock ==
    /\ pc = "lock"
    /\ at_lock' = Some(lock(unlocked_manager[1]).password_list)
    /\ unlocked_manager' = None
    /\ manager' = None
    /\ ret' = NoValue("lock", <<>>, "PasswordManager")
    /\ rejected' = 0
    /\ before' = None
    /\ pc' = "done"
    /\ UNCHANGED <<builder, chain, inserted, ever_unlocked, remaining_attempts, input,
                   unlock_calls>>

MainNext ==
    \/ MainWithMasterPassword
    \/ MainWithAccount
    \/ MainBuild
    \/ MainExit
    \/ MainDecrement
    \/ MainReadLine
    \/ MainReadFails
    \/ MainUnlock
    \/ MainGetPassword
    \/ MainLock

SpecMain == MainInit /\ [][MainNext]_vars

\* ---------------------------------------------------------------- history readings
\* The builder chain has called with_master_password.
HasMasterCall == \E i \in 1..Len(chain) : chain[i][1] = "with_master_password"

\* The argument of the chain's with_master_password call.
GivenMaster ==
    chain[CHOOSE i \in 1..Len(chain) : chain[i][1] = "with_master_password"][2]

\* What the chain's latest with_account call under key a passed, if there is one.
LastWrite(a) ==
    LET writes == {i \in 1..Len(chain) : chain[i][1] = "with_account" /\ chain[i][2] = a}
    IN  IF writes = {}
        THEN None
        ELSE Some(chain[CHOOSE i \in writes : \A j \in writes : j <= i][3])

StoreExists == manager # None \/ unlocked_manager # None

StoreUses == {"get_password", "get_passwords", "insert"}

\* ---------------------------------------------------------------- claims
\* C1: a store built with master secret m (the empty string included) and
\* unlocked with candidate m returns Ok: the locked store would unlock with m,
\* and after such an unlock the caller holds an Unlocked store on which
\* get_password, get_passwords, insert and lock are offered.
C1_UnlockWithMasterSucceeds ==
    /\ manager # None =>
        LET r == unlock(manager[1], GivenMaster)
        IN  r.tag = "Ok" /\ r.value.state = "Unlocked"
    /\ (ret.op = "unlock" /\ ret.args[1] = GivenMaster) =>
        /\ ret.tag = "Ok"
        /\ manager = None
        /\ unlocked_manager # None
        /\ unlocked_manager[1].state = "Unlocked"
        /\ ENABLED Lock
        /\ ENABLED GetPasswords
        /\ \A a \in Accounts \cup {Nobody} : ENABLED GetPassword(a)
        /\ \A a \in Accounts, p \in Passwords : ENABLED Insert(a, p)

\* C1 witness: a store with accounts and the empty master secret was just
\* unlocked with the empty candidate.
C1_Witness ==
    /\ ret.op = "unlock" /\ ret.tag = "Ok" /\ ret.args = <<"">>
    /\ GivenMaster = ""
    /\ rejected = 0 /\ ~inserted
    /\ unlocked_manager # None
    /\ DOMAIN unlocked_manager[1].password_list # {}

\* C2: an unlock with a candidate other than the master secret returns Err and
\* leaves the caller holding a Locked store that unlocks with the master
\* secret; an unlock with the master secret succeeds however many rejections
\* came before it.
C2_RejectedThenUnlockable ==
    /\ (ret.op = "unlock" /\ ret.args[1] # GivenMaster) =>
        /\ ret.tag = "Err"
        /\ unlocked_manager = None
        /\ manager # None
        /\ manager[1].state = "Locked"
        /\ unlock(manager[1], GivenMaster).tag = "Ok"
    /\ (ret.op = "unlock" /\ ret.args[1] = GivenMaster /\ rejected > 0) =>
        ret.tag = "Ok" /\ unlocked_manager # None

\* C2 witness: two rejected unlocks in a row, then a successful one.
C2_Witness ==
    /\ ret.op = "unlock" /\ ret.tag = "Ok"
    /\ rejected >= 2
    /\ unlocked_manager # None

\* C3: a rejected unlock gives back the store it was called on: while
\* rejections accumulate the locked store equals the store before the first of
\* them, and the store a later successful unlock yields has that store's
\* master secret and entries.
C3_RejectLeavesStoreUnchanged ==
    /\ (manager # None /\ rejected > 0) =>
        before # None /\ manager[1] = before[1]
    /\ (ret.op = "unlock" /\ ret.tag = "Ok" /\ rejected > 0) =>
        /\ before # None
        /\ unlocked_manager[1].password_list = before[1].password_list
        /\ unlocked_manager[1].master_password = before[1].master_password

\* C3 witness: a store with entries, some of them inserted, was rejected twice
\* and then unlocked.
C3_Witness ==
    /\ ret.op = "unlock" /\ ret.tag = "Ok"
    /\ rejected >= 2
    /\ inserted
    /\ before # None
    /\ DOMAIN before[1].password_list # {}

\* C4: after build() and unlock(m), get_password(a) returns the password of
\* the latest with_account call made with key a, wherever with_master_password
\* stood in the chain, and None for a key no with_account call passed.
C4_BuilderLastWriteWins ==
    /\ (unlocked_manager # None /\ ~inserted) =>
        \A a \in Accounts \cup {Nobody} :
            get_password(unlocked_manager[1], a) = LastWrite(a)
    /\ (ret.op = "get_password" /\ ~inserted) =>
        ret.out = LastWrite(ret.args[1])
    /\ LastWrite(Nobody) = None

\* C4 witness: with_account(k, p1), with_master_password(m), with_account(k, p2)
\* with p1 # p2, then build, unlock and get_password(k) = Some(p2).
C4_Witness ==
    /\ Len(chain) = 3
    /\ chain[1][1] = "with_account"
    /\ chain[2][1] = "with_master_password"
    /\ chain[3][1] = "with_account"
    /\ chain[1][2] = chain[3][2]
    /\ chain[1][3] # chain[3][3]
    /\ ret.op = "get_password" /\ ret.args = <<chain[3][2]>>
    /\ ret.out = Some(chain[3][3])
    /\ ~inserted

\* C5: for every Unlocked store the program reaches, lock() and then
\* unlock(m) with its master secret succeeds and yields the same entries; the
\* store that comes back from a lock() and an unlock has the entries it was
\* locked with.
C5_LockUnlockRoundTrip ==
    /\ unlocked_manager # None =>
        LET u == unlocked_manager[1]
            r == unlock(lock(u), u.master_password)
        IN  /\ r.tag = "Ok"
            /\ r.value.state = "Unlocked"
            /\ r.value.password_list = u.password_list
    /\ (manager # None /\ at_lock # None) =>
        manager[1].password_list = at_lock[1]
    /\ (unlocked_manager # None /\ at_lock # None) =>
        /\ ret.op = "unlock" /\ ret.tag = "Ok"
        /\ unlocked_manager[1].password_list = at_lock[1]

\* C5 witness: a store holding an entry insert() wrote was locked and
\* unlocked at once.
C5_Witness ==
    /\ unlocked_manager # None
    /\ at_lock # None
    /\ rejected = 0
    /\ inserted
    /\ \E a \in Accounts : get_password(unlocked_manager[1], a) # LastWrite(a)

\* C6: get_passwords() leaves both bindings of the store as they were, and so
\* does every change the caller makes to the map it returned: get_password and
\* get_passwords answer afterwards as they did before.
C6_GetPasswordsReturnsCopy ==
    [][ret'.op = "get_passwords" =>
        /\ manager' = manager
        /\ unlocked_manager' = unlocked_manager
        /\ unlocked_manager # None
        /\ \A a \in Accounts \cup {Nobody} :
            get_password(unlocked_manager'[1], a) = get_password(unlocked_manager[1], a)
        /\ get_passwords(unlocked_manager'[1]).map = get_passwords(unlocked_manager[1]).map
        /\ (ret.op # "get_passwords" =>
                ret'.map = unlocked_manager[1].password_list)]_vars

\* C6 witness: the caller has changed the returned map, which now differs
\* from the store's entries.
C6_Witness ==
    /\ ret.op = "get_passwords"
    /\ unlocked_manager # None
    /\ DOMAIN unlocked_manager[1].password_list # {}
    /\ ret.map # unlocked_manager[1].password_list

\* C7: whichever binding holds the store, after any calls, its master
\* password is the argument of the chain's with_master_password call.
C7_MasterSecretImmutable ==
    /\ StoreExists => HasMasterCall
    /\ manager # None => manager[1].master_password = GivenMaster
    /\ unlocked_manager # None => unlocked_manager[1].master_password = GivenMaster

\* C7 witness: after a rejected unlock, insert() was called with the master
\* secret as account name and as password.
C7_Witness ==
    /\ ret.op = "insert"
    /\ HasMasterCall
    /\ ret.args = <<GivenMaster, GivenMaster>>
    /\ rejected > 0
    /\ unlocked_manager # None

C9_BuiltStoreStartsLocked ==
    /\ ret.op = "build" =>
        /\ manager # None
        /\ manager[1].state = "Locked"
        /\ unlocked_manager = None
        /\ ~ever_unlocked
    /\ (StoreExists /\ ~ever_unlocked) =>
        /\ manager # None
        /\ manager[1].state = "Locked"
        /\ unlocked_manager = None
        /\ ret.op \in {"build", "unlock"}
        /\ ~ENABLED Lock
        /\ ~ENABLED GetPasswords
        /\ \A a \in Accounts \cup {Nobody} : ~ENABLED GetPassword(a)
        /\ \A a \in Accounts, p \in Passwords : ~ENABLED Insert(a, p)
    /\ ret.op \in StoreUses \cup {"lock"} => ever_unlocked

\* C9 witness: a freshly built store has had an unlock rejected and has never
\* been unlocked.
C9_Witness ==
    /\ manager # None
    /\ ~ever_unlocked
    /\ rejected > 0

\* C10: build() is offered only on a builder whose master password is set, so
\* wherever a store exists the chain called with_master_password before
\* build(), and build() returns the store itself, never a failure.
C10_NoStoreWithoutMaster ==
    /\ StoreExists => HasMasterCall
    /\ (builder # None /\ builder[1].master_password = MissingPassword) => ~ENABLED Build
    /\ (builder # None /\ builder[1].master_password # MissingPassword) => ENABLED Build
    /\ builder # None => (HasMasterCall <=> builder[1].master_password # MissingPassword)
    /\ ret.op = "build" =>
        /\ ret.tag = "PasswordManager"
        /\ builder = None
        /\ manager # None
        /\ manager[1].master_password = GivenMaster

\* C10 witness: build() was called on a chain that set the master password
\* after its with_account calls.
C10_Witness ==
    /\ ret.op = "build"
    /\ manager # None
    /\ Len(chain) = 3
    /\ chain[3][1] = "with_master_password"

\* The number of with_master_password calls the chain has made.
MasterCalls ==
    Cardinality({i \in 1..Len(chain) : chain[i][1] = "with_master_password"})

\* C11: with_master_password is offered only while the builder's master
\* password is missing, so a chain calls it at most once; once the master
\* password is set no later builder call changes it, and the store build()
\* returns has the argument of that one call as its master password.
C11_MasterSetExactlyOnce ==
    /\ [](MasterCalls <= 1)
    /\ [](builder # None =>
            /\ builder[1].master_password = MissingPassword =>
                   \A m \in Masters : ENABLED WithMasterPassword(m)
            /\ builder[1].master_password # MissingPassword =>
                   /\ \A m \in Masters : ~ENABLED WithMasterPassword(m)
                   /\ builder[1].master_password = MasterPassword(GivenMaster))
    /\ [](ret.op = "build" => manager[1].master_password = GivenMaster)
    /\ [][(builder # None /\ builder[1].master_password # MissingPassword) =>
            /\ builder' # None => builder'[1].master_password = builder[1].master_password
            /\ manager' # None =>
                   manager'[1].master_password = builder[1].master_password[1]]_vars

\* C11 witness: the master password was set first, two with_account calls
\* followed, and build() returned the store.
C11_Witness ==
    /\ ret.op = "build"
    /\ Len(chain) = 3
    /\ chain[1][1] = "with_master_password"
    /\ manager # None
    /\ manager[1].master_password = chain[1][2]

\* C12 as stated: every store that gets constructed has a non-empty master
\* password.
C12_MasterNeverEmpty ==
    /\ manager # None => manager[1].master_password # ""
    /\ unlocked_manager # None => unlocked_manager[1].master_password # ""

\* C12 amended: every store that gets constructed has a master password that
\* a with_master_password call assigned, stored as that call passed it: the
\* builder takes any string, the empty one included, and the store's master
\* password is empty exactly when the argument was.
C12_MasterAssignedAsGiven ==
    /\ StoreExists => HasMasterCall
    /\ manager # None =>
        (manager[1].master_password = "" <=> GivenMaster = "")
    /\ unlocked_manager # None =>
        (unlocked_manager[1].master_password = "" <=> GivenMaster = "")
    /\ (builder # None /\ builder[1].master_password = MissingPassword) =>
        \A m \in Masters : ENABLED WithMasterPassword(m)
    /\ ret.op = "with_master_password" =>
        builder[1].master_password = MasterPassword(ret.args[1])

\* C12 witness: build() returned a store with accounts whose master password
\* is the empty string.
C12_Witness ==
    /\ ret.op = "build"
    /\ manager # None
    /\ manager[1].master_password = ""
    /\ DOMAIN manager[1].password_list = Accounts

\* C13: insert(account, password) on an Unlocked store is offered for every
\* account and password and returns nothing; after it get_password(account)
\* is Some(password), whether the account was a key before or not, and every
\* other account, the master password and the lock state are as they were.
C13_InsertLastWriteWins ==
    /\ [](ret.op = "insert" =>
            /\ ret.tag = "Unit"
            /\ unlocked_manager # None
            /\ get_password(unlocked_manager[1], ret.args[1]) = Some(ret.args[2]))
    /\ [](unlocked_manager # None =>
            \A a \in Accounts, p \in Passwords : ENABLED Insert(a, p))
    /\ [][ret'.op = "insert" =>
            /\ unlocked_manager # None
            /\ manager' = manager
            /\ unlocked_manager'[1].master_password = unlocked_manager[1].master_password
            /\ unlocked_manager'[1].state = unlocked_manager[1].state
            /\ DOMAIN unlocked_manager'[1].password_list =
                   (DOMAIN unlocked_manager[1].password_list) \cup {ret'.args[1]}
            /\ \A a \in (Accounts \cup {Nobody}) \ {ret'.args[1]} :
                   get_password(unlocked_manager'[1], a) =
                       get_password(unlocked_manager[1], a)]_vars

\* C13 witness: insert() overwrote the password the builder gave an account,
\* next to another account of the builder's.
C13_Witness ==
    /\ ret.op = "insert"
    /\ unlocked_manager # None
    /\ LastWrite(ret.args[1]) # None
    /\ LastWrite(ret.args[1]) # Some(ret.args[2])
    /\ DOMAIN unlocked_manager[1].password_list = Accounts

\* C14: with_account leaves the builder's master password as it was, missing
\* or set, and changes the account list in the passed key alone, which
\* afterwards holds the passed password.
C14_WithAccountKeepsMaster ==
    [][(ret'.op = "with_account" /\ chain' # chain) =>
        /\ builder # None /\ builder' # None
        /\ builder'[1].master_password = builder[1].master_password
        /\ HashMap_get(builder'[1].password_list, ret'.args[1]) = Some(ret'.args[2])
        /\ DOMAIN builder'[1].password_list =
               (DOMAIN builder[1].password_list) \cup {ret'.args[1]}
        /\ \A a \in (Accounts \cup {Nobody}) \ {ret'.args[1]} :
               HashMap_get(builder'[1].password_list, a) =
                   HashMap_get(builder[1].password_list, a)]_vars

\* C14 witness: with_account was called on a builder whose master password
\* was set, and overwrote an account.
C14_Witness ==
    /\ ret.op = "with_account"
    /\ builder # None
    /\ builder[1].master_password # MissingPassword
    /\ Len(chain) = 3
    /\ chain[2][1] = "with_account"
    /\ chain[2][2] = chain[3][2]
    /\ chain[2][3] # chain[3][3]

\* C15: with_master_password turns a missing master password into the passed
\* one and leaves the accumulated account list as it was.
C15_WithMasterPasswordKeepsEntries ==
    [][(ret'.op = "with_master_password" /\ chain' # chain) =>
        /\ builder # None /\ builder' # None
        /\ builder[1].master_password = MissingPassword
        /\ builder'[1].master_password = MasterPassword(ret'.args[1])
        /\ builder'[1].password_list = builder[1].password_list]_vars

\* C15 witness: with_master_password was called on a builder that held two
\* accounts, and it still holds them.
C15_Witness ==
    /\ ret.op = "with_master_password"
    /\ builder # None
    /\ DOMAIN builder[1].password_list = Accounts

\* C16: build() hands the builder's account list and master password to the
\* store it returns and uses the builder up: from then on the builder is
\* gone for good, and with_account, with_master_password and build are no
\* longer offered.
C16_BuildTransfersAndConsumes ==
    /\ [](StoreExists <=> builder = None)
    /\ [](builder = None =>
            /\ ~ENABLED Build
            /\ \A m \in Masters : ~ENABLED WithMasterPassword(m)
            /\ \A a \in Accounts, p \in Passwords : ~ENABLED WithAccount(a, p))
    /\ [][builder = None => builder' = None /\ chain' = chain]_vars
    /\ [][(ret'.op = "build" /\ ret.op # "build") =>
            /\ builder # None
            /\ builder[1].master_password # MissingPassword
            /\ builder' = None
            /\ manager' # None
            /\ manager'[1].password_list = builder[1].password_list
            /\ manager'[1].master_password = builder[1].master_password[1]]_vars

\* C16 witness: build() returned a store with two accounts and the master
\* password "Hunter2", and the builder is gone.
C16_Witness ==
    /\ ret.op = "build"
    /\ builder = None
    /\ manager # None
    /\ manager[1].master_password = "Hunter2"
    /\ DOMAIN manager[1].password_list = Accounts

\* C17: a store is held in exactly one of the two states: once build() has
\* run, exactly one of the Locked and the Unlocked binding holds it, typed as
\* its binding says; a successful unlock empties the Locked binding and
\* lock empties the Unlocked one.
C17_ExactlyOneLockState ==
    /\ ~(manager # None /\ unlocked_manager # None)
    /\ builder = None => StoreExists
    /\ manager # None => manager[1].state = "Locked"
    /\ unlocked_manager # None => unlocked_manager[1].state = "Unlocked"
    /\ (ret.op = "unlock" /\ ret.tag = "Ok") =>
        manager = None /\ unlocked_manager # None
    /\ ret.op = "lock" =>
        unlocked_manager = None /\ manager # None

\* C17 witness: a store that was unlocked and written to has been locked
\* again.
C17_Witness ==
    /\ ret.op = "lock"
    /\ manager # None
    /\ unlocked_manager = None
    /\ inserted

\* C18: the store has no terminal state: an Unlocked store can always be
\* locked, which yields a Locked store, and a Locked store can always be
\* unlocked with its master password, which yields an Unlocked store, so
\* either state stays one call away from the other.
C18_NoTerminalState ==
    /\ unlocked_manager # None =>
        /\ ENABLED Lock
        /\ ENABLED (Lock /\ manager' # None /\ unlocked_manager' = None)
    /\ manager # None =>
        /\ unlock(manager[1], GivenMaster).tag = "Ok"
        /\ ENABLED Unlock(GivenMaster)
        /\ ENABLED (Unlock(GivenMaster) /\ unlocked_manager' # None /\ manager' = None)
    /\ StoreExists => ENABLED Next

\* C18 witness: a store that went through lock() and rejected unlocks is
\* Unlocked once more.
C18_Witness ==
    /\ unlocked_manager # None
    /\ ret.op = "unlock" /\ ret.tag = "Ok"
    /\ at_lock # None
    /\ rejected = MaxRejected

\* The builder a sequence of builder calls arrives at, each call applied to
\* the value the one before it returned, starting from new().
RECURSIVE RunChain(_)
RunChain(calls) ==
    IF calls = <<>>
    THEN new
    ELSE LET self == RunChain(SubSeq(calls, 1, Len(calls) - 1))
             call == calls[Len(calls)]
         IN  IF call[1] = "with_account"
             THEN with_account(self, call[2], call[3])
             ELSE with_master_password(self, call[2])

\* The sequence calls with its k-th element taken out.
Without(calls, k) ==
    SubSeq(calls, 1, k - 1) \o SubSeq(calls, k + 1, Len(calls))

\* The sequence calls with call put in so that it stands at position k.
PutAt(calls, k, call) ==
    SubSeq(calls, 1, k - 1) \o <<call>> \o SubSeq(calls, k, Len(calls))

\* The position of the chain's with_master_password call.
MasterAt == CHOOSE i \in 1..Len(chain) : chain[i][1] = "with_master_password"

\* C20: the builder the chain arrived at is the one its calls compute, and
\* with the one with_master_password call moved to any other position of the
\* chain, build() yields a store with the same master password and the same
\* account list.
C20_MasterPositionIrrelevant ==
    /\ builder # None => builder[1] = RunChain(chain)
    /\ ret.op = "build" => manager[1] = build(RunChain(chain))
    /\ HasMasterCall =>
        \A k \in 1..Len(chain) :
            LET moved == PutAt(Without(chain, MasterAt), k, chain[MasterAt])
                there == build(RunChain(moved))
                here == build(RunChain(chain))
            IN  /\ there.master_password = here.master_password
                /\ there.password_list = here.password_list

\* C20 witness: build() ran on a chain that overwrote an account and set the
\* master password between the two with_account calls.
C20_Witness ==
    /\ ret.op = "build"
    /\ Len(chain) = 3
    /\ MasterAt = 2
    /\ chain[1][2] = chain[3][2]
    /\ chain[1][3] # chain[3][3]

\* C19: main gives the user three unlock attempts: it never calls unlock more
\* than three times, after a rejection it goes on with the Locked manager it
\* got back, it exits after three rejections without a get_password call, and
\* get_password and then lock are called only once an unlock has succeeded.
C19_MainThreeAttempts ==
    /\ unlock_calls <= 3
    /\ pc = "loop" =>
        /\ unlock_calls = 3 - remaining_attempts
        /\ rejected = unlock_calls
        /\ ~ever_unlocked
        /\ manager # None
        /\ rejected > 0 => (ret.op = "unlock" /\ ret.tag = "Err" /\ manager = before)
        /\ unlock_calls < 3 => (ENABLED MainDecrement /\ ~ENABLED MainExit)
        /\ unlock_calls = 3 => (ENABLED MainExit /\ ~ENABLED MainDecrement)
    /\ pc = "exited" =>
        /\ unlock_calls = 3
        /\ rejected = 3
        /\ ~ever_unlocked
        /\ unlocked_manager = None
        /\ ret.op = "unlock" /\ ret.tag = "Err"
    /\ ~ever_unlocked =>
        /\ ret.op \notin {"get_password", "lock"}
        /\ pc \notin {"read_account", "get_password", "lock", "done"}
        /\ ~ENABLED MainGetPassword
        /\ ~ENABLED MainLock
    /\ pc = "read_account" => (ret.op = "unlock" /\ ret.tag = "Ok")
    /\ pc = "lock" => (ret.op = "get_password" /\ unlocked_manager # None)
    /\ pc = "done" => (ret.op = "lock" /\ unlocked_manager = None)
    /\ ever_unlocked => unlock_calls \in 1..3

\* C19 witness: two candidates were rejected, the third unlocked the manager,
\* a stored password was fetched and the manager was locked.
C19_Witness ==
    /\ pc = "done"
    /\ unlock_calls = 3
    /\ remaining_attempts = 0
    /\ ever_unlocked
    /\ ret.op = "lock"

====
